---------------------------- MODULE Spec2Model ----------------------------
(***************************************************************************)
(* The Metropolis-Hastings sampling loops of the two notebooks             *)
(*   "5 - Markov Chain Monte Carlo/mcmc_knownvariance.ipynb"   (cell 2)    *)
(*   "5 - Markov Chain Monte Carlo/mcmc_unknownvariance.ipynb" (cells 3-7) *)
(*                                                                         *)
(* Numbers.  Every number of the notebooks is a numpy float64.  The model  *)
(* keeps the IEEE-754 behaviour (rounding to nearest, ties to even,        *)
(* overflow to infinity, underflow to zero, not-a-number) and narrows the  *)
(* width: the significand keeps its implicit bit only and the exponent     *)
(* ranges over -MaxExp..MaxExp, so the finite non-zero values are          *)
(* +-2^e.  The sign of zero is dropped (x/0 takes the sign of x).          *)
(***************************************************************************)
EXTENDS Integers, Sequences, FiniteSets, TLC

\* Largest exponent of the narrowed float format (float64: 1023).
MaxExp == 6

\* Largest chain length n_mc the model runs (the notebooks: 1000).
MaxSteps == 3

---------------------------------------------------------------------------
(* The float format *)

NaN == [k |-> "nan", s |-> 0, e |-> 0]

Zero == [k |-> "zero", s |-> 0, e |-> 0]

Inf(sg) == [k |-> "inf", s |-> sg, e |-> 0]

Fin(sg, ex) == [k |-> "fin", s |-> sg, e |-> ex]

\* A Python name that has not been assigned yet.
Unset == [k |-> "unset", s |-> 0, e |-> 0]

One == Fin(1, 0)

Exps == (0 - MaxExp)..MaxExp

Floats == {NaN, Zero, Inf(1), Inf(-1)} \cup {Fin(sg, ex) : sg \in {-1, 1}, ex \in Exps}

IsFinite(x) == x.k \in {"zero", "fin"}

\* sg * 2^ex brought into the format: overflow gives infinity; below the
\* smallest magnitude the nearest value is zero (the tie at half of it goes to
\* the even significand, zero).
Round(sg, ex) ==
    IF ex > MaxExp THEN Inf(sg)
    ELSE IF ex < 0 - MaxExp THEN Zero
    ELSE Fin(sg, ex)

\* Position of a value that is not NaN on the number line.
Key(x) ==
    CASE x.k = "zero" -> 0
      [] x.k = "fin" -> x.s * (x.e + MaxExp + 1)
      [] x.k = "inf" -> x.s * (2 * MaxExp + 2)
      [] OTHER -> 0

\* a > b: false as soon as one side is NaN.
FGt(a, b) == a.k \in {"zero", "fin", "inf"} /\ b.k \in {"zero", "fin", "inf"} /\ Key(a) > Key(b)

FNeg(a) == IF a.k \in {"fin", "inf"} THEN [a EXCEPT !.s = 0 - a.s] ELSE a

\* Sum of two finite non-zero values, big the one of larger exponent, d the
\* exponent gap.  Same sign: 2^e + 2^e = 2^(e+1); 2^e + 2^(e-1) is the tie
\* between 2^e and 2^(e+1) and goes to the even significand, 2^(e+1); a
\* smaller addend is absorbed.  Opposite sign: 2^e - 2^e = 0,
\* 2^e - 2^(e-1) = 2^(e-1), 2^e - 2^(e-2) is the tie that goes to 2^e, a
\* smaller subtrahend is absorbed.
AddFin(big, small) ==
    LET d == big.e - small.e IN
    IF big.s = small.s
    THEN IF d <= 1 THEN Round(big.s, big.e + 1) ELSE big
    ELSE IF d = 0 THEN Zero
         ELSE IF d = 1 THEN Round(big.s, big.e - 1)
         ELSE big

FAdd(a, b) ==
    CASE a.k = "nan" \/ b.k = "nan" -> NaN
      [] a.k = "inf" /\ b.k = "inf" -> IF a.s = b.s THEN a ELSE NaN
      [] a.k = "inf" -> a
      [] b.k = "inf" -> b
      [] a.k = "zero" -> b
      [] b.k = "zero" -> a
      [] OTHER -> IF a.e >= b.e THEN AddFin(a, b) ELSE AddFin(b, a)

FSub(a, b) == FAdd(a, FNeg(b))

FMul(a, b) ==
    CASE a.k = "nan" \/ b.k = "nan" -> NaN
      [] a.k = "zero" -> IF b.k = "inf" THEN NaN ELSE Zero
      [] b.k = "zero" -> IF a.k = "inf" THEN NaN ELSE Zero
      [] a.k = "inf" \/ b.k = "inf" -> Inf(a.s * b.s)
      [] OTHER -> Round(a.s * b.s, a.e + b.e)

\* numpy float64 division: x/0 is +-inf, 0/0 is NaN (a RuntimeWarning, no
\* exception).
FDiv(a, b) ==
    CASE a.k = "nan" \/ b.k = "nan" -> NaN
      [] b.k = "zero" -> IF a.k = "zero" THEN NaN ELSE Inf(a.s)
      [] a.k = "zero" -> Zero
      [] a.k = "inf" -> IF b.k = "inf" THEN NaN ELSE Inf(a.s * b.s)
      [] b.k = "inf" -> Zero
      [] OTHER -> Round(a.s * b.s, a.e - b.e)

\* numpy.square
FSquare(a) == FMul(a, a)

\* sg^n for a sign sg and an integer n
SignPow(sg, n) == IF n % 2 = 0 THEN 1 ELSE sg

\* numpy.power(a, n) for an integer exponent n
FPow(a, n) ==
    CASE n = 0 -> One
      [] a.k = "nan" -> NaN
      [] a.k = "zero" -> IF n < 0 THEN Inf(1) ELSE Zero
      [] a.k = "inf" -> IF n < 0 THEN Zero ELSE Inf(SignPow(a.s, n))
      [] OTHER -> Round(SignPow(a.s, n), a.e * n)

\* The exponent of the value of the format nearest to exp(2^ex) and to
\* exp(-2^ex): e^(1/4) = 1.28, e^(1/2) = 1.65, e = 2.72, e^2 = 7.39,
\* e^4 = 54.6, e^8 = 2981; e^(-1/4) = 0.78, e^(-1/2) = 0.61, e^(-1) = 0.37,
\* e^(-2) = 0.135, e^(-4) = 0.0183, e^(-8) = 0.000335.  From 2^4 on the
\* result lies outside every exponent range below 23.
ExpUp(ex) ==
    CASE ex <= -2 -> 0
      [] ex = -1 -> 1
      [] ex = 0 -> 1
      [] ex = 1 -> 3
      [] ex = 2 -> 6
      [] ex = 3 -> 11
      [] OTHER -> 23

ExpDown(ex) ==
    CASE ex <= -2 -> 0
      [] ex = -1 -> -1
      [] ex = 0 -> -2
      [] ex = 1 -> -3
      [] ex = 2 -> -6
      [] ex = 3 -> -12
      [] OTHER -> -23

\* numpy.exp
FExp(a) ==
    CASE a.k = "nan" -> NaN
      [] a.k = "zero" -> One
      [] a.k = "inf" -> IF a.s = 1 THEN Inf(1) ELSE Zero
      [] OTHER -> Round(1, IF a.s = 1 THEN ExpUp(a.e) ELSE ExpDown(a.e))

\* floor(log2 n) for an integer n >= 1
RECURSIVE ILog2(_)
ILog2(n) == IF n < 2 THEN 0 ELSE 1 + ILog2(n \div 2)

\* A Python int entering float arithmetic: the nearest value of the format
\* (3 lies halfway between 2 and 4 and goes to the even significand, 4).
FromInt(n) ==
    IF n = 0 THEN Zero
    ELSE LET m == IF n < 0 THEN 0 - n ELSE n
             sg == IF n < 0 THEN -1 ELSE 1
             ex == ILog2(m)
         IN IF 2 * m >= 3 * (2 ^ ex) THEN Round(sg, ex + 1) ELSE Round(sg, ex)

\* A numpy bool times a float: False is 0.0 and True is 1.0.
BoolMul(b, x) == FMul(IF b THEN One ELSE Zero, x)

---------------------------------------------------------------------------
(* Configuration.  The notebooks' literals are float64 values; the model    *)
(* holds values of the narrowed format.                                     *)

\* mcmc_unknownvariance.ipynb cell 3: meanx = 5, sigmax = 2 as in the
\* notebook; Nx = 100 there, and 4 here so that x^(-Nx+2) stays inside the
\* narrowed exponent range for some x.
meanx == 5

sigmax == 2

Nx == 4

\* tau_mu = 0.6 and tau_sigma = 0.1: the nearest values of the format.
tau_mu == Fin(1, -1)

tau_sigma == Fin(1, -3)

\* numpy.linalg.cholesky of diag(tau_mu^2, tau_sigma^2)
cholesky == << <<tau_mu, Zero>>, <<Zero, tau_sigma>> >>

\* mcmc_knownvariance.ipynb: means = [4, 6]; the model centres the target
\* where the narrowed format is dense.
means == <<One, One>>

\* Sigma = I / sqrt(100) = I / 10, as scipy's multivariate_normal keeps it:
\* prec_U = Sigma^(-1/2) = sqrt(10) I (nearest value 4) and
\* rank * log(2 pi) + log(det Sigma) = 3.68 - 4.61 (nearest value -1).
prec_U == << <<Fin(1, 2), Zero>>, <<Zero, Fin(1, 2)>> >>

log_norm == Fin(-1, 0)

\* markov_chain[0], the literal the cell starts from ([9.234, 0.567] and
\* [3.2, 8.6] in the notebooks as published): starting points of the format
\* far from the target, in its bulk, beside it, and at the largest finite
\* value.
StartStates(nbk) ==
    IF nbk = "known"
    THEN {<<Fin(1, 3), Fin(1, -1)>>, <<One, One>>, <<One, Zero>>, <<Fin(1, MaxExp), One>>}
    ELSE {<<Fin(1, 2), Fin(1, 3)>>, <<Fin(1, 2), Fin(1, 2)>>, <<Fin(1, 2), One>>,
          <<Fin(1, MaxExp), Fin(1, 3)>>}

\* The draws.  numpy.random.multivariate_normal and numpy.random.randn give
\* finite values: zero, and a small, a large and a huge component of either
\* sign.
NormalDraws == {Zero} \cup {Fin(sg, ex) : sg \in {-1, 1}, ex \in {-1, 3, MaxExp}}

\* The pairs of normal draws the model tries: along either axis and along the
\* diagonal.
NoiseDraws == {z \in NormalDraws \X NormalDraws : z[1] = Zero \/ z[2] = Zero \/ z[1] = z[2]}

\* numpy.random.rand(): a value of [0, 1).
UniformDraws == {Zero} \cup {Fin(1, ex) : ex \in (0 - MaxExp)..(-1)}

---------------------------------------------------------------------------
(* Vectors of two floats *)

VAdd(a, b) == <<FAdd(a[1], b[1]), FAdd(a[2], b[2])>>

VSub(a, b) == <<FSub(a[1], b[1]), FSub(a[2], b[2])>>

\* numpy.dot(M, v) for a 2x2 matrix M (a tuple of rows)
MatVec(M, v) ==
    << FAdd(FMul(M[1][1], v[1]), FMul(M[1][2], v[2])),
       FAdd(FMul(M[2][1], v[1]), FMul(M[2][2], v[2])) >>

\* numpy.dot(v, M)
VecMat(v, M) ==
    << FAdd(FMul(v[1], M[1][1]), FMul(v[2], M[2][1])),
       FAdd(FMul(v[1], M[1][2]), FMul(v[2], M[2][2])) >>

\* numpy.dot(cholesky, z) for each pair of draws, tabulated
\* (<<>> @@ f is f, held as an explicit table).
CholeskyDot == <<>> @@ [z \in NoiseDraws |-> MatVec(cholesky, z)]

---------------------------------------------------------------------------
(* The target densities *)

\* scipy.stats.multivariate_normal.pdf(x, means, Sigma):
\*   dev = x - mean; maha = sum(square(dot(dev, prec_U)))
\*   exp(-0.5 * (rank * log(2 pi) + log_det + maha))
multivariate_normal_pdf(x) ==
    LET dev == VSub(x, means)
        w == VecMat(dev, prec_U)
        maha == FAdd(FSquare(w[1]), FSquare(w[2]))
    IN FExp(FMul(Fin(-1, -1), FAdd(log_norm, maha)))

\* posterior_space, its power factor: p1 = numpy.power(cps,-(float(N)+2)/2)
\* (N even, as Nx is: the exponent is a whole number)
posterior_space_p1(N, curr_param) == FPow(curr_param[2], 0 - ((N + 2) \div 2))

\* posterior_space, the argument of its exponential: p4*(p2+p3) with
\* p4 = -1/(2 * cps)
posterior_space_arg(mean, sigma, N, curr_param) ==
    LET p2 == (N - 1) * (sigma * sigma)
        p3 == FMul(FromInt(N), FSquare(FSub(FromInt(mean), curr_param[1])))
        p4 == FDiv(FromInt(-1), FMul(FromInt(2), curr_param[2]))
    IN FMul(p4, FAdd(FromInt(p2), p3))

\* def posterior_space(mean, sigma, N, curr_param)
posterior_space(mean, sigma, N, curr_param) ==
    FMul(BoolMul(FGt(curr_param[2], Zero), posterior_space_p1(N, curr_param)),
         FExp(posterior_space_arg(mean, sigma, N, curr_param)))

\* posterior_space_2, its power factor: p1 = numpy.power(curr_param[1],-N+2)
posterior_space_2_p1(N, curr_param) == FPow(curr_param[2], 0 - N + 2)

\* posterior_space_2, the argument of its exponential: -1*(p2+p3)/p4
posterior_space_2_arg(mean, sigma, N, curr_param) ==
    LET p2 == (N - 1) * (sigma * sigma)
        p3 == FMul(FromInt(N), FSquare(FSub(FromInt(mean), curr_param[1])))
        p4 == FMul(FromInt(2), FSquare(curr_param[2]))
    IN FDiv(FMul(FromInt(-1), FAdd(FromInt(p2), p3)), p4)

\* def posterior_space_2(mean, sigma, N, curr_param)
posterior_space_2(mean, sigma, N, curr_param) ==
    LET p1 == FPow(curr_param[2], 0 - N + 2)
        p2 == (N - 1) * (sigma * sigma)
        p3 == FMul(FromInt(N), FSquare(FSub(FromInt(mean), curr_param[1])))
        p4 == FMul(FromInt(2), FSquare(curr_param[2]))
    IN FMul(BoolMul(FGt(curr_param[2], Zero), p1),
            FExp(FDiv(FMul(FromInt(-1), FAdd(FromInt(p2), p3)), p4)))

\* The densities the two loops evaluate, tabulated over the format by first
\* and second component.
KnownDensity ==
    <<>> @@ [a \in Floats |-> <<>> @@ [b \in Floats |-> multivariate_normal_pdf(<<a, b>>)]]

UnknownDensity ==
    <<>> @@ [a \in Floats |->
                <<>> @@ [b \in Floats |-> posterior_space_2(meanx, sigmax, Nx, <<a, b>>)]]

\* pdf_curr / pdf_proposed and current_pdf / proposed_pdf
target_density(nbk, x) ==
    IF nbk = "known" THEN KnownDensity[x[1]][x[2]] ELSE UnknownDensity[x[1]][x[2]]

---------------------------------------------------------------------------
(* The notebook's state *)

VARIABLES
    notebook,          \* which notebook runs: "known" or "unknown"
    n_mc,              \* n_mc, the length of the chain
    x0,                \* the literal assigned to markov_chain[0]
    pc,                \* "setup", "loop" or "done"
    markov_chain,      \* markov_chain: row index (from 0) -> state
    acceptances,       \* acceptances
    i,                 \* the next value of the loop variable i
    current_val,       \* current_val (known: current_mean)
    proposed,          \* proposed (known: proposed_mean)
    current_pdf,       \* current_pdf (known: pdf_curr)
    proposed_pdf,      \* proposed_pdf (known: pdf_proposed)
    r,                 \* r (known: ratio)
    rand,              \* rand
    acceptance_ratio,  \* acceptance_ratio (known notebook only)
    written,           \* history: the rows the loop has assigned
    tests,             \* history: per iteration so far, whether r > rand held
    twin               \* a second run of the same cell on the same draws,
                       \* started in a different namespace

vars == <<notebook, n_mc, x0, pc, markov_chain, acceptances, i, current_val,
          proposed, current_pdf, proposed_pdf, r, rand, acceptance_ratio,
          written, tests, twin>>

ZeroVec == <<Zero, Zero>>

UnsetVec == <<Unset, Unset>>

\* What the kernel's namespace may hold of markov_chain and acceptances when
\* the cell starts: nothing yet, or what an earlier execution left.
Leftovers ==
    { [markov_chain |-> [k \in {} |-> ZeroVec], acceptances |-> 0],
      [markov_chain |-> [k \in 0..0 |-> <<One, One>>], acceptances |-> 1] }

\* zeros allocating one row too many.
zerosOneMore(n) == [k \in 0..n |-> <<Zero, Zero>>]

\* numpy.zeros((n, 2))
zeros(n) == [k \in 0..(n - 1) |-> ZeroVec]

\* CellSetup counting the starting state as an acceptance.
CellSetupCountsStart(old, n, start) ==
    [markov_chain |-> [[k \in 0..(n - 1) |-> <<Zero, Zero>>] EXCEPT ![0] = start],
     acceptances |-> 1]

\* CellSetup with acceptances = 0 left to another cell: the count goes on from
\* what the namespace holds.
CellSetupKeepsCount(old, n, start) ==
    [markov_chain |-> [[k \in 0..(n - 1) |-> <<Zero, Zero>>] EXCEPT ![0] = start],
     acceptances |-> old.acceptances]

\* The start of the cell: markov_chain = numpy.zeros((n_mc,2));
\* markov_chain[0] = start; acceptances = 0.  old is the namespace the cell
\* finds; every name the loop reads is assigned afresh.
CellSetup(old, n, start) ==
    [markov_chain |-> [zeros(n) EXCEPT ![0] = start], acceptances |-> 0]

\* LoopRange one iteration short: numpy.arange(n_mc-2)
LoopRangeShort(n) == 0..(n - 3)

\* numpy.arange(n_mc-1)
LoopRange(n) == 0..(n - 2)

\* The candidate: current_mean + numpy.random.multivariate_normal(meanp,covp)
\* (z is the draw) and current_val + numpy.dot(cholesky,numpy.random.randn(2))
\* (z is randn's draw).
Propose(nbk, cur, z) ==
    IF nbk = "known" THEN VAdd(cur, z) ELSE VAdd(cur, CholeskyDot[z])

\* a <= b: false as soon as one side is NaN.
FLe(a, b) == a.k \in {"zero", "fin", "inf"} /\ b.k \in {"zero", "fin", "inf"} /\ Key(a) <= Key(b)

\* Accepts with >= for >.
AcceptsGe(ratio, u) == FLe(u, ratio)

\* Accepts written as the negation of the rejection test r <= rand.
AcceptsUnlessLe(ratio, u) == ~FLe(ratio, u)

\* if r > rand:
Accepts(ratio, u) == FGt(ratio, u)

\* WriteIndex off by one: markov_chain[i]
WriteIndexCurrent(idx) == idx

\* The row an iteration assigns: markov_chain[i+1]
WriteIndex(idx) == idx + 1

\* Reject that skips the row instead of repeating the state.
RejectSkips(chain, idx, cur) == chain

\* else: markov_chain[i+1] = current_val
Reject(chain, idx, cur) == [chain EXCEPT ![WriteIndex(idx)] = cur]

\* markov_chain[i+1] = proposed
Accept(chain, idx, prop) == [chain EXCEPT ![WriteIndex(idx)] = prop]

\* One pass through the loop body for loop variable idx, from the candidate
\* prop on, with the draw u of numpy.random.rand().
Iteration(nbk, chain, acc, idx, prop, u) ==
    LET cur == chain[idx]
        cpdf == target_density(nbk, cur)
        ppdf == target_density(nbk, prop)
        ratio == FDiv(ppdf, cpdf)
    IN IF Accepts(ratio, u)
       THEN [markov_chain |-> Accept(chain, idx, prop), acceptances |-> acc + 1,
             current_val |-> cur, proposed |-> prop,
             current_pdf |-> cpdf, proposed_pdf |-> ppdf, r |-> ratio, rand |-> u]
       ELSE [markov_chain |-> Reject(chain, idx, cur), acceptances |-> acc,
             current_val |-> cur, proposed |-> prop,
             current_pdf |-> cpdf, proposed_pdf |-> ppdf, r |-> ratio, rand |-> u]

Init ==
    /\ notebook \in {"known", "unknown"}
    /\ n_mc \in 1..MaxSteps
    /\ x0 \in StartStates(notebook)
    /\ pc = "setup"
    /\ \E old \in Leftovers :
          /\ markov_chain = old.markov_chain
          /\ acceptances = old.acceptances
          /\ twin \in Leftovers \ {old}
    /\ i = 0
    /\ current_val = UnsetVec
    /\ proposed = UnsetVec
    /\ current_pdf = Unset
    /\ proposed_pdf = Unset
    /\ r = Unset
    /\ rand = Unset
    /\ acceptance_ratio = Unset
    /\ written = {}
    /\ tests = <<>>

\* The cell up to its loop.
Setup ==
    /\ pc = "setup"
    /\ \E s \in {CellSetup([markov_chain |-> markov_chain, acceptances |-> acceptances],
                            n_mc, x0)} :
          /\ markov_chain' = s.markov_chain
          /\ acceptances' = s.acceptances
    /\ twin' = CellSetup(twin, n_mc, x0)
    /\ i' = 0
    /\ pc' = "loop"
    /\ UNCHANGED <<notebook, n_mc, x0, current_val, proposed, current_pdf,
                   proposed_pdf, r, rand, acceptance_ratio, written, tests>>

\* One iteration of  for i in numpy.arange(n_mc-1):
Loop(nbk) ==
    /\ pc = "loop"
    /\ notebook = nbk
    /\ i \in LoopRange(n_mc)
    /\ \E u \in UniformDraws :
          /\ rand' = u
          /\ \E z \in NoiseDraws :
                \E prop \in {Propose(nbk, markov_chain[i], z)},
                   tprop \in {Propose(nbk, twin.markov_chain[i], z)} :
                   /\ proposed' = prop
                   /\ \E s \in {Iteration(nbk, markov_chain, acceptances, i, prop, u)},
                         t \in {Iteration(nbk, twin.markov_chain, twin.acceptances,
                                          i, tprop, u)} :
                         /\ markov_chain' = s.markov_chain
                         /\ acceptances' = s.acceptances
                         /\ current_val' = s.current_val
                         /\ current_pdf' = s.current_pdf
                         /\ proposed_pdf' = s.proposed_pdf
                         /\ r' = s.r
                         /\ tests' = Append(tests, FGt(s.r, u))
                         /\ twin' = [markov_chain |-> t.markov_chain,
                                     acceptances |-> t.acceptances]
    /\ written' = written \cup {WriteIndex(i)}
    /\ i' = i + 1
    /\ UNCHANGED <<notebook, n_mc, x0, pc, acceptance_ratio>>

LoopKnown == Loop("known")

LoopUnknown == Loop("unknown")

\* The ratio taken over the proposals made: acceptances / (n_mc - 1)
RatioOverProposals(acc, n) == FDiv(FromInt(acc), FromInt(n - 1))

\* acceptances / n_mc (Python 3: the true quotient of the two ints)
ReportedRatio(acc, n) == FDiv(FromInt(acc), FromInt(n))

\* After the loop of the known-variance cell:
\* acceptance_ratio = acceptances / n_mc
AcceptanceRatio ==
    /\ pc = "loop"
    /\ notebook = "known"
    /\ i \notin LoopRange(n_mc)
    /\ acceptance_ratio' = ReportedRatio(acceptances, n_mc)
    /\ pc' = "done"
    /\ UNCHANGED <<notebook, n_mc, x0, markov_chain, acceptances, i, current_val,
                   proposed, current_pdf, proposed_pdf, r, rand, written, tests, twin>>

\* The unknown-variance cell ends with its loop.
EndOfCell ==
    /\ pc = "loop"
    /\ notebook = "unknown"
    /\ i \notin LoopRange(n_mc)
    /\ pc' = "done"
    /\ UNCHANGED <<notebook, n_mc, x0, markov_chain, acceptances, i, current_val,
                   proposed, current_pdf, proposed_pdf, r, rand, acceptance_ratio,
                   written, tests, twin>>

Next == Setup \/ LoopKnown \/ LoopUnknown \/ AcceptanceRatio \/ EndOfCell

Spec == Init /\ [][Next]_vars

\* The cell runs on: a sequential program takes its next step.
FairSpec == Spec /\ WF_vars(Next)

---------------------------------------------------------------------------
(* The claims *)

\* The run has left its setup: markov_chain and acceptances are this run's.
Running == pc \in {"loop", "done"}

IsFiniteVec(x) == IsFinite(x[1]) /\ IsFinite(x[2])

\* The number of iterations so far whose test r > rand held.
Passed == Cardinality({k \in 1..Len(tests) : tests[k]})

\* C1: for every iteration whose test r > rand failed (a NaN r included), the
\* row it wrote equals the row before it, component by component.
C1_RejectionReplaysPreviousState ==
    Running => \A k \in 1..Len(tests) :
                  ~tests[k] => markov_chain[k] = markov_chain[k - 1]

\* C1 witness: after an accepted move, an iteration whose r is NaN was
\* rejected and repeated the moved state.
C1_Witness ==
    /\ pc = "done"
    /\ tests = <<TRUE, FALSE>>
    /\ r = NaN
    /\ markov_chain[1] # markov_chain[0]
    /\ markov_chain[2] = markov_chain[1]

\* C2: the candidate is accepted exactly when r > rand, r being the ratio of
\* the target density at the candidate to that at the current row: the row
\* written is then the candidate, and acceptances counts exactly the
\* iterations so far whose test held.
C2_AcceptedExactlyWhenRatioWins ==
    Running =>
        /\ acceptances = Passed
        /\ i >= 1 =>
              /\ current_val = markov_chain[i - 1]
              /\ r = FDiv(target_density(notebook, proposed),
                          target_density(notebook, current_val))
              /\ tests[i] = FGt(r, rand)
              /\ tests[i] => markov_chain[i] = proposed

\* C2 witness: a candidate of lower density than the current row was rejected
\* on one draw of rand and accepted, with a ratio below 1, on a smaller one.
C2_Witness ==
    /\ pc = "done"
    /\ tests = <<FALSE, TRUE>>
    /\ r.k = "fin" /\ r.e < 0
    /\ acceptances = 1
    /\ markov_chain[1] = markov_chain[0]
    /\ markov_chain[2] = proposed
    /\ markov_chain[2] # markov_chain[1]

\* C3: when the run has finished the chain holds exactly n_mc rows, row 0 the
\* starting state and rows 1..n_mc-1 each assigned by an iteration (none left
\* at the zero fill, none beyond).
C3_ChainHoldsExactlyNSteps ==
    pc = "done" =>
        /\ DOMAIN markov_chain = 0..(n_mc - 1)
        /\ markov_chain[0] = x0
        /\ written = 1..(n_mc - 1)

\* C3 witness: a finished run of the longest chain, its last row written and
\* different from the zero fill.
C3_Witness ==
    /\ pc = "done"
    /\ n_mc = MaxSteps
    /\ (n_mc - 1) \in written
    /\ markov_chain[n_mc - 1] # ZeroVec

\* C4: during and after the loop 0 <= acceptances <= n_mc - 1.
C4_AcceptanceBound ==
    Running => acceptances >= 0 /\ acceptances <= n_mc - 1

\* C4 witness: a finished run in which every iteration accepted.
C4_Witness ==
    /\ pc = "done"
    /\ n_mc = MaxSteps
    /\ acceptances = n_mc - 1

\* C5: an iteration whose current row has target density 0 is handled as
\* reject-and-continue, whatever the density of the candidate: its test fails
\* and the row it writes repeats the current row.
C5_ZeroDensityRowIsKept ==
    (Running /\ i >= 1 /\ current_pdf = Zero) =>
        /\ ~tests[i]
        /\ markov_chain[i] = markov_chain[i - 1]

\* C6: the unknown-variance density is exactly 0 at every candidate whose
\* second component is zero or negative.
C6_DensityZeroOffSupport ==
    (Running /\ notebook = "unknown" /\ i >= 1 /\ FLe(proposed[2], Zero)) =>
        proposed_pdf = Zero

\* C7: the chain is append-only: row 0 is the starting state throughout the
\* run, and a step of the loop changes no row but row i+1.
C7_ChainIsAppendOnly ==
    /\ [](Running => markov_chain[0] = x0)
    /\ [][pc = "loop" =>
            /\ DOMAIN markov_chain' = DOMAIN markov_chain
            /\ \A k \in DOMAIN markov_chain :
                  k # i + 1 => markov_chain'[k] = markov_chain[k]]_vars

\* C7 witness: a finished run that accepted a move and then rejected one, its
\* starting row still in place.
C7_Witness ==
    /\ pc = "done"
    /\ n_mc = MaxSteps
    /\ markov_chain[0] = x0
    /\ markov_chain[1] # x0
    /\ tests[1] /\ ~tests[2]

\* C8: two runs of the cell given the same starting state, n_mc, density and
\* draws have the same chain and the same count, whatever the namespace each
\* started in.
C8_SameInputsSameRun ==
    Running =>
        /\ twin.markov_chain = markov_chain
        /\ twin.acceptances = acceptances

\* C8 witness: both runs, started in different namespaces, have finished a
\* chain of the longest length with an accepted and a rejected move.
C8_Witness ==
    /\ pc = "done"
    /\ n_mc = MaxSteps
    /\ acceptances = 1
    /\ twin.acceptances = 1
    /\ twin.markov_chain[n_mc - 1] # x0

\* C9: an iteration whose candidate has an infinite or NaN component is
\* rejected, and no row of a chain started at a finite state is non-finite.
C9_NonFiniteCandidateRejected ==
    Running =>
        /\ (i >= 1 /\ ~IsFiniteVec(proposed)) =>
              /\ ~tests[i]
              /\ markov_chain[i] = markov_chain[i - 1]
        /\ IsFiniteVec(x0) => \A k \in DOMAIN markov_chain : IsFiniteVec(markov_chain[k])

\* C9 witness: the candidate overflowed to infinity and the row written is
\* the current row.
C9_Witness ==
    /\ Running
    /\ i >= 1
    /\ proposed[1] = Inf(1)
    /\ ~tests[i]
    /\ markov_chain[i] = markov_chain[i - 1]
    /\ acceptances = 0

C11_RatioIsCountOverChainLength ==
    (pc = "done" /\ notebook = "known") =>
        IF acceptances = 0 THEN acceptance_ratio = Zero
        ELSE /\ acceptance_ratio.k = "fin"
             /\ acceptance_ratio.s = 1
             /\ acceptance_ratio.e <= 0
             /\ 3 * n_mc <= 4 * acceptances * (2 ^ (0 - acceptance_ratio.e))
             /\ 2 * acceptances * (2 ^ (0 - acceptance_ratio.e)) <= 3 * n_mc

\* C11 witness: a finished run that accepted every one of its n_mc - 1
\* proposals reports a ratio below 1.
C11_Witness ==
    /\ pc = "done"
    /\ notebook = "known"
    /\ n_mc = 2
    /\ acceptances = n_mc - 1
    /\ acceptance_ratio = Fin(1, -1)

\* A float result that neither overflowed nor underflowed.
InRange(x) == x.k = "fin"

\* C12: posterior_space and posterior_space_2, given the same statistics and
\* the same state of positive second component, have the same power factor
\* and the same argument of the exponential wherever none of the four has
\* left the range of the format, and then the same value.
C12_FormulationsAgree ==
    (/\ Running /\ notebook = "unknown" /\ i >= 1
     /\ FGt(proposed[2], Zero) /\ IsFiniteVec(proposed)
     /\ InRange(posterior_space_p1(Nx, proposed))
     /\ InRange(posterior_space_2_p1(Nx, proposed))
     /\ InRange(posterior_space_arg(meanx, sigmax, Nx, proposed))
     /\ InRange(posterior_space_2_arg(meanx, sigmax, Nx, proposed)))
    => /\ posterior_space_p1(Nx, proposed) = posterior_space_2_p1(Nx, proposed)
       /\ posterior_space_arg(meanx, sigmax, Nx, proposed)
             = posterior_space_2_arg(meanx, sigmax, Nx, proposed)
       /\ posterior_space(meanx, sigmax, Nx, proposed) = proposed_pdf

\* The target density of the running notebook is positive at x.
PositiveDensity(x) == FGt(target_density(notebook, x), Zero)

\* C13: if the starting state has target density > 0, then every row of the
\* chain written so far has target density > 0, and no iteration divided by
\* a density of 0.
C13_PositiveDensityIsKept ==
    (Running /\ PositiveDensity(x0)) =>
        /\ \A k \in 0..i : PositiveDensity(markov_chain[k])
        /\ i >= 1 => FGt(current_pdf, Zero)

\* C13 witness: from a start of positive density the chain moved, and then a
\* candidate of density 0 met the draw rand = 0: r = 0 is not greater, the
\* candidate was rejected.
C13_Witness ==
    /\ pc = "done"
    /\ PositiveDensity(x0)
    /\ tests = <<TRUE, FALSE>>
    /\ proposed_pdf = Zero
    /\ r = Zero
    /\ rand = Zero
    /\ markov_chain[2] = markov_chain[1]
    /\ markov_chain[1] # x0

\* The candidate is a pair of finite numbers at which the argument of
\* posterior_space_2's exponential is a number: neither the candidate nor
\* the squares taken of it have left the range of the float format.
CandidateInRange ==
    /\ IsFiniteVec(proposed)
    /\ notebook = "unknown" =>
          posterior_space_2_arg(meanx, sigmax, Nx, proposed).k # "nan"

\* C14: an iteration whose current row has density > 0 accepts every
\* candidate whose density is greater than or equal to the current one,
\* whatever the draw rand, and rejects a candidate only if its density is
\* strictly lower than the current one (for candidates in range).
C14_RejectedOnlyIfLower ==
    (Running /\ i >= 1 /\ FGt(current_pdf, Zero) /\ CandidateInRange) =>
        /\ FLe(current_pdf, proposed_pdf) => tests[i] /\ markov_chain[i] = proposed
        /\ ~tests[i] => FGt(current_pdf, proposed_pdf)

===========================================================================
